---- MODULE Spec2Model ----
(***************************************************************************)
(* The interaction state machine of the Bernays agent                      *)
(* (src/modules/interaction_agent.py) and the /api/chat handler that       *)
(* drives the one shared agent (src/app.py).                               *)
(*                                                                         *)
(* Numbers.  influence_level is a Python float; here it is an integer      *)
(* count of 1/Scale, with Scale chosen so that every product and quotient  *)
(* the code computes within the bounds is exact (ArithmeticExact below is  *)
(* the check of that).  Times are integer ticks of TickSeconds seconds;    *)
(* total_seconds() of a difference is the tick difference * TickSeconds.   *)
(*                                                                         *)
(* Text.  A str is a sequence of one-character strings, so that lower()    *)
(* and the substring test `marker in input_lower` are computed.            *)
(***************************************************************************)
EXTENDS Integers, Sequences, FiniteSets, TLC

\* ------------------------------------------------------------------ bounds
\* generate_response calls accepted in one run
MaxTurns == 2
\* forward clock ticks in one run
MaxClock == 3
\* times the wall clock is set back in one run
MaxBack == 1
\* forward clock ticks in one run of the threaded server
MaxClockThreaded == 1

\* ------------------------------------------------------- program constants
\* interaction_agent.py:146  `time_diff / 300`
DecaySeconds == 300

TickSeconds == DecaySeconds \div 2

\* one unit of influence_level is 1/Scale: a turn halves (one tick of decay)
\* and moves by a tenth, so 10 * 2^MaxTurns keeps MaxTurns turns exact
RECURSIVE Pow2(_)
Pow2(n) == IF n = 0 THEN 1 ELSE 2 * Pow2(n - 1)

Scale == 10 * Pow2(MaxTurns)

\* interaction_agent.py:149,152  the literal 0.1
Tenth == Scale \div 10

\* interaction_agent.py:149  the literal 1.0
One == Scale

\* datetime.now() is the naive local wall clock: it is set back an hour at
\* the end of daylight saving time (and by any manual or NTP step)
ClockSetBack == {3600 \div TickSeconds}

Max2(a, b) == IF a >= b THEN a ELSE b

Min2(a, b) == IF a <= b THEN a ELSE b

\* ---------------------------------------------------------------- text
\* str.lower() on the characters the texts below use
LowerChar(c) ==
    CASE c = "G" -> "g"
      [] c = "N" -> "n"
      [] c = "O" -> "o"
      [] c = "P" -> "p"
      [] c = "T" -> "t"
      [] c = "M" -> "m"
      [] c = "H" -> "h"
      [] OTHER -> c

Lower(s) == [i \in 1..Len(s) |-> LowerChar(s[i])]

\* `marker in input_lower`: marker occurs as a contiguous substring
Contains(s, m) ==
    \E i \in 1..(Len(s) - Len(m) + 1) : SubSeq(s, i, i + Len(m) - 1) = m

\* sentiment_markers, a dict: iteration is in insertion order
PositiveMarkers ==
    << <<"g","o","o","d">>, <<"g","r","e","a","t">>, <<"y","e","s">>,
       <<"a","g","r","e","e">>, <<"l","i","k","e">>,
       <<"t","h","a","n","k","s">>, <<"h","e","l","l","o">>, <<"h","i">> >>

NegativeMarkers ==
    << <<"b","a","d">>, <<"n","o">>, <<"d","i","s","a","g","r","e","e">>,
       <<"d","o","n","'","t">>, <<"c","a","n","n","o","t">>,
       <<"b","y","e">> >>

UncertainMarkers ==
    << <<"m","a","y","b","e">>, <<"p","e","r","h","a","p","s">>,
       <<"p","o","s","s","i","b","l","y">>,
       <<"n","o","t"," ","s","u","r","e">> >>

\* the dict with its uncertain list written before the negative one
sentiment_markers_UncertainFirst ==
    << [tone |-> "positive", markers |-> PositiveMarkers],
       [tone |-> "uncertain", markers |-> UncertainMarkers],
       [tone |-> "negative", markers |-> NegativeMarkers] >>

sentiment_markers ==
    << [tone |-> "positive", markers |-> PositiveMarkers],
       [tone |-> "negative", markers |-> NegativeMarkers],
       [tone |-> "uncertain", markers |-> UncertainMarkers] >>

\* any(marker in input_lower for marker in markers)
AnyMarker(markers, input_lower) ==
    \E k \in 1..Len(markers) : Contains(input_lower, markers[k])

\* the loop without its `break`: the last list that matches wins
ScanFrom_NoBreak(i, input_lower) ==
    IF AnyMarker(UncertainMarkers, input_lower) THEN "uncertain"
    ELSE IF AnyMarker(NegativeMarkers, input_lower) THEN "negative"
    ELSE IF AnyMarker(PositiveMarkers, input_lower) THEN "positive"
    ELSE "neutral"

\* the for loop of analyze_response from item i on: the first tone whose
\* list has a marker in the text, `neutral` when the loop runs out
RECURSIVE ScanFrom(_, _)
ScanFrom(i, input_lower) ==
    IF i > Len(sentiment_markers) THEN "neutral"
    ELSE IF AnyMarker(sentiment_markers[i].markers, input_lower)
         THEN sentiment_markers[i].tone
         ELSE ScanFrom(i + 1, input_lower)

Sentiment(user_input) == ScanFrom(1, Lower(user_input))

\* the dict analyze_response returns
analyze_response(user_input, clock) ==
    [sentiment |-> Sentiment(user_input),
     length    |-> Len(user_input),
     timestamp |-> clock]

\* ------------------------------------------------------- the agent's state
VARIABLES
    current_state,          \* self.current_state
    influence_level,        \* self.influence_level, in units of 1/Scale
    last_interaction_time,  \* self.last_interaction_time, in ticks
    interaction_history,    \* self.interaction_history
    now,                    \* what datetime.now() returns, in ticks
    turns,                  \* generate_response calls accepted so far
    advanced,               \* forward ticks of the clock so far
    backs,                  \* times the clock was set back so far
    pc,                     \* per worker thread: where its handler stands
    frame,                  \* per worker thread: the handler's locals
    tmp,                    \* per worker thread: temporaries of the update
    config,                 \* the oscillator's sample_rate and duration
    waveform                \* the latest generate_frequency call and result

vars == <<current_state, influence_level, last_interaction_time,
          interaction_history, now, turns, advanced, backs, pc, frame,
          tmp, config, waveform>>

session == <<current_state, influence_level, last_interaction_time,
             interaction_history>>

InteractionState == {"NEUTRAL", "ENGAGED", "INFLUENCED", "RESISTANT"}

BrainwaveStates == {"DELTA", "THETA", "ALPHA", "BETA", "GAMMA"}

\* ------------------------------------------------------- the oscillator
\* A float duration is a fraction [num, den] of seconds with den > 0, so
\* that sample_rate * duration is computed exactly.  A waveform is
\* represented by its number of samples.

\* app.py 49-54: the defaults of NEURAL_CONFIG (sample_rate 44100,
\* duration 5.0)
NEURAL_CONFIG ==
    [sample_rate |-> 44100, duration |-> [num |-> 5, den |-> 1]]

\* no call made yet
NoWaveform ==
    [frequency |-> 0, duration |-> [num |-> 0, den |-> 1],
     outcome |-> "none", samples |-> 0]

\* int(x) for x = a / b, b > 0: truncation toward zero
IntTrunc(a, b) == IF a >= 0 THEN a \div b ELSE 0 - ((0 - a) \div b)

\* neural_oscillator.py 19-25, for an explicit duration: no argument is
\* checked; np.linspace(0, duration, num) raises ValueError for num < 0 and
\* returns num samples otherwise, whatever the frequency
generate_frequency(sample_rate, frequency, duration) ==
    LET num == IntTrunc(sample_rate * duration.num, duration.den)
    IN  IF num < 0
        THEN [frequency |-> frequency, duration |-> duration,
              outcome |-> "ValueError", samples |-> 0]
        ELSE [frequency |-> frequency, duration |-> duration,
              outcome |-> "returned", samples |-> num]

\* ------------------------------------------------ update_interaction_state
\* line 144: (current_time - self.last_interaction_time).total_seconds()
TimeDiff(current_time, last) == (current_time - last) * TickSeconds

\* a decay that takes ten minutes instead of five
Decay_TenMinutes(level, time_diff) ==
    (level * Max2(0, 2 * DecaySeconds - time_diff)) \div (2 * DecaySeconds)

\* line 146: level * max(0, 1 - time_diff / 300)
Decay(level, time_diff) ==
    (level * Max2(0, DecaySeconds - time_diff)) \div DecaySeconds

\* lines 148-155, the influence level: the elif chain has no branch for
\* `uncertain`
AdjustLevel(level, sentiment) ==
    CASE sentiment = "positive" -> Min2(One, level + Tenth)
      [] sentiment = "negative" -> Max2(0, level - Tenth)
      [] OTHER -> level

\* an else branch that sends every other sentiment back to NEUTRAL
AdjustState_ElseNeutral(state, sentiment) ==
    CASE sentiment = "positive" -> "INFLUENCED"
      [] sentiment = "negative" -> "RESISTANT"
      [] sentiment = "neutral" -> "ENGAGED"
      [] OTHER -> "NEUTRAL"

\* a chain whose neutral branch is missing
AdjustState_NoNeutralBranch(state, sentiment) ==
    CASE sentiment = "positive" -> "INFLUENCED"
      [] sentiment = "negative" -> "RESISTANT"
      [] OTHER -> state

\* a neutral branch that names the NEUTRAL state instead of ENGAGED
AdjustState_NeutralToNeutral(state, sentiment) ==
    CASE sentiment = "positive" -> "INFLUENCED"
      [] sentiment = "negative" -> "RESISTANT"
      [] sentiment = "neutral" -> "NEUTRAL"
      [] OTHER -> state

\* lines 148-155, the interaction state
AdjustState(state, sentiment) ==
    CASE sentiment = "positive" -> "INFLUENCED"
      [] sentiment = "negative" -> "RESISTANT"
      [] sentiment = "neutral" -> "ENGAGED"
      [] OTHER -> state

\* lines 158-162: the dict appended by update_interaction_state
StateRecord(current_time, state, level) ==
    [timestamp |-> current_time, state |-> state, influence_level |-> level]

\* what a method without a return statement returns (`-> None`, line 139)
NoneValue == [none |-> TRUE]

\* the method with the append moved before the sentiment adjustment
update_interaction_state_EarlyAppend(analysis, current_time, state, level, last, history) ==
    LET decayed  == Decay(level, TimeDiff(current_time, last))
        newLevel == AdjustLevel(decayed, analysis.sentiment)
        newState == AdjustState(state, analysis.sentiment)
    IN  [current_state         |-> newState,
         influence_level       |-> newLevel,
         last_interaction_time |-> current_time,
         interaction_history   |->
             Append(history, StateRecord(current_time, state, decayed)),
         returns               |-> NoneValue]

\* the whole method, run without interruption at clock reading current_time
\* on the fields (state, level, last, history): the fields after the call
update_interaction_state(analysis, current_time, state, level, last, history) ==
    LET decayed  == Decay(level, TimeDiff(current_time, last))
        newLevel == AdjustLevel(decayed, analysis.sentiment)
        newState == AdjustState(state, analysis.sentiment)
    IN  [current_state         |-> newState,
         influence_level       |-> newLevel,
         last_interaction_time |-> current_time,
         interaction_history   |->
             Append(history, StateRecord(current_time, newState, newLevel)),
         returns               |-> NoneValue]

\* ------------------------------------------------------- generate_response
\* a table that sends RESISTANT to BETA
get_target_brainwave_state_ResistantBeta(state) ==
    CASE state = "NEUTRAL" -> "ALPHA"
      [] state = "ENGAGED" -> "BETA"
      [] state = "INFLUENCED" -> "THETA"
      [] state = "RESISTANT" -> "BETA"

\* lines 120-126
get_target_brainwave_state(state) ==
    CASE state = "NEUTRAL" -> "ALPHA"
      [] state = "ENGAGED" -> "BETA"
      [] state = "INFLUENCED" -> "THETA"
      [] state = "RESISTANT" -> "ALPHA"

\* lines 130-137: the frequency handed to oscillator.generate_frequency
generate_neural_pattern(state) ==
    CASE state = "NEUTRAL" -> 10
      [] state = "ENGAGED" -> 15
      [] state = "INFLUENCED" -> 7
      [] OTHER -> 12

\* the reply of the text-generation backend, abstracted to one value
ReplyText == "completion"

\* lines 95-100: the dict appended after a successful completion
ExchangeRecord(user_input, response_text, sentiment, clock) ==
    [user_input |-> user_input, agent_response |-> response_text,
     sentiment |-> sentiment, timestamp |-> clock]

\* lines 102-107
OkResponse(response_text, state, level) ==
    [text |-> response_text,
     neural_pattern |-> generate_neural_pattern(state),
     target_state |-> get_target_brainwave_state(state),
     influence_level |-> level]

\* an except branch that reports the session's level
FallbackResponse_LiveLevel ==
    [text |-> "I'm processing your message. Please continue our conversation.",
     neural_pattern |-> 10,
     target_state |-> "ALPHA",
     influence_level |-> influence_level]

\* lines 111-116: the except branch
FallbackResponse ==
    [text |-> "I'm processing your message. Please continue our conversation.",
     neural_pattern |-> 10,
     target_state |-> "ALPHA",
     influence_level |-> 0]

\* ------------------------------------------------- get_interaction_metrics
\* a duration counted from the latest entry of the log instead of the first
get_interaction_metrics_FromLatest(history, state, level, clock) ==
    IF history = << >>
    THEN [total_interactions |-> 0, current_state |-> state,
          influence_level |-> level, session_duration_seconds |-> 0]
    ELSE [total_interactions |-> Len(history), current_state |-> state,
          influence_level |-> level,
          session_duration_seconds |->
              (clock - history[Len(history)].timestamp) * TickSeconds]

get_interaction_metrics(history, state, level, clock) ==
    IF history = << >>
    THEN [total_interactions |-> 0, current_state |-> state,
          influence_level |-> level, session_duration_seconds |-> 0]
    ELSE [total_interactions |-> Len(history), current_state |-> state,
          influence_level |-> level,
          session_duration_seconds |->
              (clock - history[1].timestamp) * TickSeconds]

\* ------------------------------------------------------------ the server
\* the worker threads of the development server; requests served one at a
\* time all run on MainThread
Threads == {"t1", "t2"}

MainThread == "t1"

\* the messages posted to /api/chat (already stripped, line 253)
Texts ==
    { <<"g","r","e","a","t">>, <<"n","o">>, <<"h","m","m">>,
      <<"m","a","y","b","e">> }

NoAnalysis == [sentiment |-> "none", length |-> 0, timestamp |-> 0]

NoResponse == [text |-> "none"]

NoMetrics == [total_interactions |-> 0 - 1]

\* update_interaction_state was not called
NotCalled == [called |-> FALSE]

\* a handler's locals: the message, analyze_response's dict, what
\* update_interaction_state returned, how the completion call ended, the
\* dict generate_response returned and the metrics chat() put in its reply
IdleFrame ==
    [user_input |-> << >>, analysis |-> NoAnalysis,
     update_returned |-> NotCalled, completion |-> "none",
     response |-> NoResponse, metrics |-> NoMetrics]

\* update_interaction_state's temporaries: current_time, time_diff and the
\* attribute value loaded for an in-place update
IdleTmp == [current_time |-> 0, time_diff |-> 0, acc |-> 0]

\* InteractionAgent.__init__ (lines 21-24), then app.py:57
Init ==
    /\ current_state = "NEUTRAL"
    /\ influence_level = 0
    /\ last_interaction_time = 0
    /\ interaction_history = << >>
    /\ now = 0
    /\ turns = 0
    /\ advanced = 0
    /\ backs = 0
    /\ pc = [t \in Threads |-> "idle"]
    /\ frame = [t \in Threads |-> IdleFrame]
    /\ tmp = [t \in Threads |-> IdleTmp]
    /\ config = NEURAL_CONFIG
    /\ waveform = NoWaveform

\* time passes
Advance(limit) ==
    /\ advanced < limit
    /\ now' = now + 1
    /\ advanced' = advanced + 1
    /\ UNCHANGED <<config, waveform, session, turns, backs, pc, frame, tmp>>

Tick == Advance(MaxClock)

\* the wall clock is set back
SetBack(d) ==
    /\ backs < MaxBack
    /\ now' = now - d
    /\ backs' = backs + 1
    /\ UNCHANGED <<config, waveform, session, turns, advanced, pc, frame, tmp>>

\* a generate_response that updates the state only after the completion
\* call returned: a failed turn leaves the session as it was
Request_UpdateAfterCompletion(limit, text, ok) ==
    /\ turns < limit
    /\ \A t \in Threads : pc[t] = "idle"
    /\ LET analysis == analyze_response(text, now)
           upd == update_interaction_state(analysis, now, current_state,
                      influence_level, last_interaction_time,
                      interaction_history)
           history == Append(upd.interaction_history,
                          ExchangeRecord(text, ReplyText,
                              analysis.sentiment, now))
       IN  IF ok
           THEN /\ current_state' = upd.current_state
                /\ influence_level' = upd.influence_level
                /\ last_interaction_time' = upd.last_interaction_time
                /\ interaction_history' = history
                /\ frame' = [frame EXCEPT ![MainThread] =
                       [user_input |-> text, analysis |-> analysis,
                        update_returned |-> upd.returns,
                        completion |-> "ok",
                        response |-> OkResponse(ReplyText, upd.current_state,
                                         upd.influence_level),
                        metrics |-> get_interaction_metrics(history,
                            upd.current_state, upd.influence_level, now)]]
           ELSE /\ UNCHANGED session
                /\ frame' = [frame EXCEPT ![MainThread] =
                       [user_input |-> text, analysis |-> analysis,
                        update_returned |-> NotCalled,
                        completion |-> "failed",
                        response |-> FallbackResponse,
                        metrics |-> get_interaction_metrics(
                            interaction_history, current_state,
                            influence_level, now)]]
    /\ turns' = turns + 1
    /\ UNCHANGED <<config, waveform, now, advanced, backs, pc, tmp>>

\* chat() with a non-empty message, run to completion (app.py 239-295):
\* generate_response (analysis, state update, completion call that succeeds
\* or raises, reply) and then get_interaction_metrics
Request(limit, text, ok) ==
    /\ turns < limit
    /\ \A t \in Threads : pc[t] = "idle"
    /\ LET analysis == analyze_response(text, now)
           upd == update_interaction_state(analysis, now, current_state,
                      influence_level, last_interaction_time,
                      interaction_history)
           history == IF ok
                      THEN Append(upd.interaction_history,
                               ExchangeRecord(text, ReplyText,
                                   analysis.sentiment, now))
                      ELSE upd.interaction_history
           response == IF ok
                       THEN OkResponse(ReplyText, upd.current_state,
                                upd.influence_level)
                       ELSE FallbackResponse
       IN  /\ current_state' = upd.current_state
           /\ influence_level' = upd.influence_level
           /\ last_interaction_time' = upd.last_interaction_time
           /\ interaction_history' = history
           /\ frame' = [frame EXCEPT ![MainThread] =
                  [user_input |-> text, analysis |-> analysis,
                   update_returned |-> upd.returns,
                   completion |-> IF ok THEN "ok" ELSE "failed",
                   response |-> response,
                   metrics |-> get_interaction_metrics(history,
                       upd.current_state, upd.influence_level, now)]]
    /\ turns' = turns + 1
    /\ UNCHANGED <<config, waveform, now, advanced, backs, pc, tmp>>

Chat(text, ok) == Request(MaxTurns, text, ok)

\* chat() with an empty message (app.py 254-261): metrics only
EmptyMessage ==
    /\ \A t \in Threads : pc[t] = "idle"
    /\ frame' = [frame EXCEPT ![MainThread] =
           [IdleFrame EXCEPT
               !.response =
                   [text |-> "I didn't catch that. What would you like to discuss?"],
               !.metrics = get_interaction_metrics(interaction_history,
                   current_state, influence_level, now)]]
    /\ UNCHANGED <<config, waveform, session, now, turns, advanced, backs, pc, tmp>>

Next ==
    \/ \E text \in Texts, ok \in BOOLEAN : Chat(text, ok)
    \/ EmptyMessage
    \/ Tick
    \/ \E d \in ClockSetBack : SetBack(d)

\* requests are served one at a time
Spec == Init /\ [][Next]_vars

\* with the clock standing still (negligible time between calls) a run
\* affords one more turn
StillTurns == MaxTurns + 1

ChatStill(text, ok) == Request(StillTurns, text, ok)

NextStill ==
    \/ \E text \in Texts, ok \in BOOLEAN : ChatStill(text, ok)
    \/ EmptyMessage

SpecStill == Init /\ [][NextStill]_vars

\* ------------------------------------------------ the threaded server
\* app.run(debug=True) serves each request on a thread of its own, all on
\* the one module-level agent (app.py:57), and the handler takes no lock:
\* a thread may be preempted between any two reads or writes of the
\* agent's attributes.  pc names the source line the thread executes next.
UpdatePcs == {"L141", "L143", "L146", "L146s", "L148", "L149s", "L150",
              "L157", "L158"}

\* app.py 243-264: the message arrives and generate_response is entered
Receive(t, text) ==
    /\ pc[t] = "idle"
    /\ turns < MaxTurns
    /\ turns' = turns + 1
    /\ frame' = [frame EXCEPT ![t] = [IdleFrame EXCEPT !.user_input = text]]
    /\ tmp' = [tmp EXCEPT ![t] = IdleTmp]
    /\ pc' = [pc EXCEPT ![t] = "L66"]
    /\ UNCHANGED <<config, waveform, session, now, advanced, backs>>

\* line 66
AnalyzeStep(t) ==
    /\ pc[t] = "L66"
    /\ frame' = [frame EXCEPT
           ![t].analysis = analyze_response(frame[t].user_input, now)]
    /\ pc' = [pc EXCEPT ![t] = "L141"]
    /\ UNCHANGED <<config, waveform, session, now, turns, advanced, backs, tmp>>

\* line 141
ReadClock(t) ==
    /\ pc[t] = "L141"
    /\ tmp' = [tmp EXCEPT ![t].current_time = now]
    /\ pc' = [pc EXCEPT ![t] = "L143"]
    /\ UNCHANGED <<config, waveform, session, now, turns, advanced, backs, frame>>

\* lines 143-144
ReadLast(t) ==
    /\ pc[t] = "L143"
    /\ tmp' = [tmp EXCEPT ![t].time_diff =
           TimeDiff(tmp[t].current_time, last_interaction_time)]
    /\ pc' = [pc EXCEPT ![t] = "L146"]
    /\ UNCHANGED <<config, waveform, session, now, turns, advanced, backs, frame>>

\* line 146, `self.influence_level *= ...`: the attribute is loaded ...
DecayLoad(t) ==
    /\ pc[t] = "L146"
    /\ tmp' = [tmp EXCEPT ![t].acc = influence_level]
    /\ pc' = [pc EXCEPT ![t] = "L146s"]
    /\ UNCHANGED <<config, waveform, session, now, turns, advanced, backs, frame>>

\* ... and, after max() was called, the product is stored
DecayStore(t) ==
    /\ pc[t] = "L146s"
    /\ influence_level' = Decay(tmp[t].acc, tmp[t].time_diff)
    /\ pc' = [pc EXCEPT ![t] = "L148"]
    /\ UNCHANGED <<config, waveform, current_state, last_interaction_time, interaction_history,
                   now, turns, advanced, backs, frame, tmp>>

\* lines 148, 151, 154: the elif chain picks its branch; lines 149 and 152
\* load the attribute
Branch(t) ==
    /\ pc[t] = "L148"
    /\ LET s == frame[t].analysis.sentiment
       IN  /\ tmp' = [tmp EXCEPT ![t].acc =
                  IF s \in {"positive", "negative"}
                  THEN influence_level ELSE tmp[t].acc]
           /\ pc' = [pc EXCEPT ![t] =
                  CASE s \in {"positive", "negative"} -> "L149s"
                    [] s = "neutral" -> "L150"
                    [] OTHER -> "L157"]
    /\ UNCHANGED <<config, waveform, session, now, turns, advanced, backs, frame>>

\* lines 149 and 152: min() or max() was called and the result is stored
AdjustStore(t) ==
    /\ pc[t] = "L149s"
    /\ influence_level' = AdjustLevel(tmp[t].acc, frame[t].analysis.sentiment)
    /\ pc' = [pc EXCEPT ![t] = "L150"]
    /\ UNCHANGED <<config, waveform, current_state, last_interaction_time, interaction_history,
                   now, turns, advanced, backs, frame, tmp>>

\* lines 150, 153, 155
SetState(t) ==
    /\ pc[t] = "L150"
    /\ current_state' = AdjustState(current_state, frame[t].analysis.sentiment)
    /\ pc' = [pc EXCEPT ![t] = "L157"]
    /\ UNCHANGED <<config, waveform, influence_level, last_interaction_time, interaction_history,
                   now, turns, advanced, backs, frame, tmp>>

\* line 157
Stamp(t) ==
    /\ pc[t] = "L157"
    /\ last_interaction_time' = tmp[t].current_time
    /\ pc' = [pc EXCEPT ![t] = "L158"]
    /\ UNCHANGED <<config, waveform, current_state, influence_level, interaction_history,
                   now, turns, advanced, backs, frame, tmp>>

\* lines 158-162
Record(t) ==
    /\ pc[t] = "L158"
    /\ interaction_history' = Append(interaction_history,
           StateRecord(tmp[t].current_time, current_state, influence_level))
    /\ frame' = [frame EXCEPT ![t].update_returned = NoneValue]
    /\ pc' = [pc EXCEPT ![t] = "L82"]
    /\ UNCHANGED <<config, waveform, current_state, influence_level, last_interaction_time,
                   now, turns, advanced, backs, tmp>>

\* lines 70-89: the completion call returns a text or raises
Complete(t, ok) ==
    /\ pc[t] = "L82"
    /\ frame' = [frame EXCEPT ![t].completion = IF ok THEN "ok" ELSE "failed"]
    /\ pc' = [pc EXCEPT ![t] = IF ok THEN "L95" ELSE "L111"]
    /\ UNCHANGED <<config, waveform, session, now, turns, advanced, backs, tmp>>

\* lines 92-100
Remember(t) ==
    /\ pc[t] = "L95"
    /\ interaction_history' = Append(interaction_history,
           ExchangeRecord(frame[t].user_input, ReplyText,
               frame[t].analysis.sentiment, now))
    /\ pc' = [pc EXCEPT ![t] = "L102"]
    /\ UNCHANGED <<config, waveform, current_state, influence_level, last_interaction_time,
                   now, turns, advanced, backs, frame, tmp>>

\* lines 102-107
Reply(t) ==
    /\ pc[t] = "L102"
    /\ frame' = [frame EXCEPT ![t].response =
           OkResponse(ReplyText, current_state, influence_level)]
    /\ pc' = [pc EXCEPT ![t] = "L290"]
    /\ UNCHANGED <<config, waveform, session, now, turns, advanced, backs, tmp>>

\* lines 109-116
Fallback(t) ==
    /\ pc[t] = "L111"
    /\ frame' = [frame EXCEPT ![t].response = FallbackResponse]
    /\ pc' = [pc EXCEPT ![t] = "L290"]
    /\ UNCHANGED <<config, waveform, session, now, turns, advanced, backs, tmp>>

\* app.py 290-295
Metrics(t) ==
    /\ pc[t] = "L290"
    /\ frame' = [frame EXCEPT ![t].metrics =
           get_interaction_metrics(interaction_history, current_state,
               influence_level, now)]
    /\ pc' = [pc EXCEPT ![t] = "idle"]
    /\ UNCHANGED <<config, waveform, session, now, turns, advanced, backs, tmp>>

TickThreaded == Advance(MaxClockThreaded)

NextThreaded ==
    \/ \E t \in Threads, text \in Texts : Receive(t, text)
    \/ \E t \in Threads : AnalyzeStep(t)
    \/ \E t \in Threads : ReadClock(t)
    \/ \E t \in Threads : ReadLast(t)
    \/ \E t \in Threads : DecayLoad(t)
    \/ \E t \in Threads : DecayStore(t)
    \/ \E t \in Threads : Branch(t)
    \/ \E t \in Threads : AdjustStore(t)
    \/ \E t \in Threads : SetState(t)
    \/ \E t \in Threads : Stamp(t)
    \/ \E t \in Threads : Record(t)
    \/ \E t \in Threads, ok \in BOOLEAN : Complete(t, ok)
    \/ \E t \in Threads : Remember(t)
    \/ \E t \in Threads : Reply(t)
    \/ \E t \in Threads : Fallback(t)
    \/ \E t \in Threads : Metrics(t)
    \/ TickThreaded

\* (the clock only moves forward in these runs; Spec has the set-back)
SpecThreaded == Init /\ [][NextThreaded]_vars

\* --------------------------------------------- generate_frequency alone
\* sample rates a configuration may carry (DEFAULT_SAMPLE_RATE, app.py:50)
SampleRates == {8000, 44100}

\* frequencies asked for: negative, zero, in range, at and above Nyquist
Frequencies == {0 - 1, 0, 10, 4000, 22050, 30000}

\* durations asked for, in whole seconds and in sixteenths of a second
Durations ==
    { [num |-> n, den |-> d] : n \in (0 - 1)..4, d \in {1, 2 * 8} }

\* the agent built on a configuration with another sample rate
InitOscillator ==
    /\ current_state = "NEUTRAL"
    /\ influence_level = 0
    /\ last_interaction_time = 0
    /\ interaction_history = << >>
    /\ now = 0
    /\ turns = 0
    /\ advanced = 0
    /\ backs = 0
    /\ pc = [t \in Threads |-> "idle"]
    /\ frame = [t \in Threads |-> IdleFrame]
    /\ tmp = [t \in Threads |-> IdleTmp]
    /\ config \in { [NEURAL_CONFIG EXCEPT !.sample_rate = r] : r \in SampleRates }
    /\ waveform = NoWaveform

\* oscillator.generate_frequency(frequency, duration)
GenerateFrequency(frequency, duration) ==
    /\ waveform' = generate_frequency(config.sample_rate, frequency, duration)
    /\ UNCHANGED <<session, now, turns, advanced, backs, pc, frame, tmp, config>>

\* oscillator.generate_frequency(frequency): duration is None and
\* self.duration is taken (lines 21-22)
GenerateDefault(frequency) ==
    /\ waveform' = generate_frequency(config.sample_rate, frequency,
                       config.duration)
    /\ UNCHANGED <<session, now, turns, advanced, backs, pc, frame, tmp, config>>

NextOscillator ==
    \/ \E f \in Frequencies, d \in Durations : GenerateFrequency(f, d)
    \/ \E f \in Frequencies : GenerateDefault(f)

SpecOscillator == InitOscillator /\ [][NextOscillator]_vars

\* ----------------------------------------------- analyze_response alone
\* words the classified texts are made of
Words ==
    { <<"G","r","e","a","t">>, <<"N","O">>, <<"H","m","m">>,
      <<"M","a","y","b","e">>, <<"t","h","a","n","k","s">>,
      <<"n","o","t"," ","s","u","r","e">>, <<"k","n","o","w">>,
      <<"T","h","i","s">>, <<"P","e","r","h","a","p","s">>,
      <<"b","a","d">>, <<"o","k">>, <<"s","u","r","e">>,
      <<"p","o","s","s","i","b","l","y">> }

ClassifyTexts ==
    Words \cup { a \o <<" ">> \o b : a \in Words, b \in Words }

\* agent.analyze_response(text) called on its own: nothing of the session
\* changes
Analyze(text) ==
    /\ \A t \in Threads : pc[t] = "idle"
    /\ frame' = [frame EXCEPT ![MainThread] =
           [IdleFrame EXCEPT !.user_input = text,
                             !.analysis = analyze_response(text, now)]]
    /\ UNCHANGED <<config, waveform, session, now, turns, advanced, backs, pc, tmp>>

NextClassify == \E text \in ClassifyTexts : Analyze(text)

SpecClassify == Init /\ [][NextClassify]_vars

\* ------------------------------------------------------------- properties
\* the request MainThread served last
req == frame[MainThread]

IsStateRecord(r) == "state" \in DOMAIN r

StateRecords == SelectSeq(interaction_history, IsStateRecord)

\* a step that is one whole turn (one generate_response call)
TurnStep == turns' = turns + 1

\* the products of the decay step leave no remainder within the bounds, so
\* the integer model of the float arithmetic is exact
ArithmeticExact ==
    [][TurnStep =>
         (influence_level
            * Max2(0, DecaySeconds - TimeDiff(now, last_interaction_time)))
           % DecaySeconds = 0]_vars

\* the same for the product a thread is about to store at line 146
ArithmeticExactThreaded ==
    \A t \in Threads :
        pc[t] = "L146s" =>
            (tmp[t].acc * Max2(0, DecaySeconds - tmp[t].time_diff))
               % DecaySeconds = 0

\* C1: influence_level lies in [0, 1] in every reachable state, also when
\* `now` is earlier than last_update.
C1_InfluenceInUnitInterval == influence_level >= 0 /\ influence_level <= One

\* C2: advance() applies the sentiment table to the already-decayed level d:
\* POSITIVE min(1, d+0.1) / INFLUENCED, NEGATIVE max(0, d-0.1) / RESISTANT,
\* NEUTRAL d / ENGAGED, UNCERTAIN d / the state as it was before the call.
C2_SentimentTable ==
    [][TurnStep =>
        LET d == Decay(influence_level, TimeDiff(now, last_interaction_time))
            s == req'.analysis.sentiment
        IN  /\ s \in {"positive", "negative", "neutral", "uncertain"}
            /\ s = "positive" =>
                 /\ influence_level' = (IF d + Tenth > One THEN One ELSE d + Tenth)
                 /\ current_state' = "INFLUENCED"
            /\ s = "negative" =>
                 /\ influence_level' = (IF d - Tenth < 0 THEN 0 ELSE d - Tenth)
                 /\ current_state' = "RESISTANT"
            /\ s = "neutral" =>
                 /\ influence_level' = d
                 /\ current_state' = "ENGAGED"
            /\ s = "uncertain" =>
                 /\ influence_level' = d
                 /\ current_state' = current_state]_vars

\* an UNCERTAIN turn that kept a state set by an earlier turn, with a decayed
\* but positive level
C2_Witness ==
    /\ req.analysis.sentiment = "uncertain"
    /\ current_state = "INFLUENCED"
    /\ influence_level > 0
    /\ influence_level < Tenth

\* C3: the log holds exactly one entry per turn: after n turns it has n
\* entries and metrics reports total_turns = n, whether or not the
\* completion call succeeded.
C3_OneEntryPerTurn ==
    /\ Len(interaction_history) = turns
    /\ req.completion # "none" => req.metrics.total_interactions = turns

\* C5: when the completion call fails, the reply is the fixed fallback text
\* with target band ALPHA and influence level 0, whatever the session holds.
C5_FallbackReply ==
    req.completion = "failed" =>
        /\ req.response.text =
               "I'm processing your message. Please continue our conversation."
        /\ req.response.target_state = "ALPHA"
        /\ req.response.influence_level = 0

\* a failed turn on a session that is INFLUENCED with a positive level
C5_Witness ==
    /\ req.completion = "failed"
    /\ current_state = "INFLUENCED"
    /\ influence_level > 0
    /\ turns > 1

\* C6: with `now` earlier than last_update the decay factor is exactly 1:
\* the level before the sentiment adjustment equals the prior level.
C6_BackwardClockNoDecay ==
    [][(/\ TurnStep
        /\ now < last_interaction_time
        /\ req'.analysis.sentiment \in {"neutral", "uncertain"})
       => influence_level' = influence_level]_vars

\* C7: decay is linear and reaches zero at 300 s: a turn that leaves the
\* decayed level as it is (NEUTRAL, and UNCERTAIN alike) ends at exactly 0
\* for elapsed >= 300 and at prior * (300 - elapsed) / 300 for
\* 0 <= elapsed < 300.
C7_LinearDecay ==
    [][(TurnStep /\ req'.analysis.sentiment \in {"neutral", "uncertain"}) =>
        LET elapsed == (now - last_interaction_time) * TickSeconds
        IN  /\ elapsed >= 300 => influence_level' = 0
            /\ (0 <= elapsed /\ elapsed < 300) =>
                   300 * influence_level' = influence_level * (300 - elapsed)]_vars

\* a NEUTRAL turn, 300 s or more after a turn that left a positive level,
\* that ended at level 0
C7_Witness ==
    /\ req.analysis.sentiment = "neutral"
    /\ Len(StateRecords) = 2
    /\ StateRecords[1].influence_level > 0
    /\ (StateRecords[2].timestamp - StateRecords[1].timestamp) * TickSeconds >= 300
    /\ StateRecords[2].influence_level = 0
    /\ influence_level = 0

\* one turn of the script: message `text` on a session in state s0 at level
\* l0, no time elapsed, leaves state s1 and level l1
ScriptStep(text, s0, l0, s1, l1) ==
    (/\ TurnStep
     /\ req'.user_input = text
     /\ current_state = s0
     /\ influence_level = l0
     /\ now = last_interaction_time)
    => (current_state' = s1 /\ influence_level' = l1)

\* C8: from a fresh session, with no time elapsed between calls, the turns
\* "great", "no", "hmm" give the states INFLUENCED, RESISTANT and then the
\* outcome of the NEUTRAL fallback ("hmm" matches no marker list: state
\* ENGAGED), and the influence trace 0.1, 0.0, 0.0.
C8_ScriptedTurns ==
    [][/\ (TurnStep /\ req'.user_input = <<"h","m","m">>)
            => req'.analysis.sentiment = "neutral"
       /\ ScriptStep(<<"g","r","e","a","t">>, "NEUTRAL", 0, "INFLUENCED", Tenth)
       /\ ScriptStep(<<"n","o">>, "INFLUENCED", Tenth, "RESISTANT", 0)
       /\ ScriptStep(<<"h","m","m">>, "RESISTANT", 0, "ENGAGED", 0)]_vars

\* the session after the three scripted turns
C8_Witness ==
    /\ turns = 3
    /\ req.user_input = <<"h","m","m">>
    /\ Len(StateRecords) = 3
    /\ [i \in 1..3 |-> StateRecords[i].state]
           = <<"INFLUENCED", "RESISTANT", "ENGAGED">>
    /\ [i \in 1..3 |-> StateRecords[i].influence_level] = <<Tenth, 0, 0>>

\* some marker of the list occurs in the lower-cased text
Occurs(markers, text) ==
    \E k \in 1..Len(markers) : Contains(Lower(text), markers[k])

\* C9: classify returns the class of the first of the lists POSITIVE,
\* NEGATIVE, UNCERTAIN that has a marker occurring in the lower-cased text,
\* and NEUTRAL exactly when no marker of any list occurs.
C9_FirstListWins ==
    req.analysis.sentiment # "none" =>
        req.analysis.sentiment =
            (IF Occurs(PositiveMarkers, req.user_input) THEN "positive"
             ELSE IF Occurs(NegativeMarkers, req.user_input) THEN "negative"
             ELSE IF Occurs(UncertainMarkers, req.user_input) THEN "uncertain"
             ELSE "neutral")

\* "NO thanks" holds a negative and a positive marker and is POSITIVE
C9_Witness ==
    /\ req.user_input = <<"N","O"," ","t","h","a","n","k","s">>
    /\ Occurs(NegativeMarkers, req.user_input)
    /\ req.analysis.sentiment = "positive"

\* C10: target_band is total on the four states and maps NEUTRAL, ENGAGED,
\* INFLUENCED, RESISTANT to ALPHA, BETA, THETA, ALPHA, whatever the level
\* and the log.
C10_TargetBand ==
    /\ \A s \in InteractionState :
           get_target_brainwave_state(s) \in BrainwaveStates
    /\ req.completion = "ok" =>
           /\ current_state = "NEUTRAL" => req.response.target_state = "ALPHA"
           /\ current_state = "ENGAGED" => req.response.target_state = "BETA"
           /\ current_state = "INFLUENCED" => req.response.target_state = "THETA"
           /\ current_state = "RESISTANT" => req.response.target_state = "ALPHA"

\* a successful RESISTANT turn at level 0 after a turn at a positive level
C10_Witness ==
    /\ req.completion = "ok"
    /\ current_state = "RESISTANT"
    /\ req.response.target_state = "ALPHA"
    /\ influence_level = 0
    /\ Len(StateRecords) = 2
    /\ StateRecords[1].influence_level > 0

\* C4: for one session at most one advance() executes at a time: no two
\* update_interaction_state calls on the shared agent overlap.
C4_OneAdvanceAtATime ==
    Cardinality({t \in Threads : pc[t] \in UpdatePcs}) <= 1

\* what an overlap costs: two "great" turns with the clock untouched, both
\* finished, and the level is that of one turn
C4_LostUpdate ==
    /\ \A t \in Threads :
           pc[t] = "idle" /\ frame[t].user_input = <<"g","r","e","a","t">>
    /\ advanced = 0 /\ backs = 0
    /\ influence_level = Tenth

C11_EmptyLog ==
    /\ interaction_history = << >>
    /\ now > 0
    /\ req.metrics.total_interactions = 0
    /\ req.metrics.session_duration_seconds = 0

\* the call was made with a frequency outside (0, sample_rate / 2)
BadFrequency ==
    waveform.frequency <= 0 \/ 2 * waveform.frequency >= config.sample_rate

\* the call was made with a duration <= 0
BadDuration == waveform.duration.num <= 0

\* C12: generate rejects invalid inputs before computing anything:
\* InvalidFrequency when frequency <= 0 or >= sample_rate / 2,
\* InvalidDuration when duration <= 0, and no waveform is returned.
C12_RejectsInvalid ==
    waveform.outcome # "none" =>
        /\ (BadFrequency \/ BadDuration) =>
               waveform.outcome \in {"InvalidFrequency", "InvalidDuration"}
        /\ (BadFrequency /\ ~BadDuration) =>
               waveform.outcome = "InvalidFrequency"
        /\ (BadDuration /\ ~BadFrequency) =>
               waveform.outcome = "InvalidDuration"

\* round(a / b) for a >= 0, b > 0: to the nearest integer, a tie to the
\* even one
Round(a, b) ==
    LET q == a \div b
        r == a % b
    IN  IF 2 * r < b THEN q
        ELSE IF 2 * r > b THEN q + 1
        ELSE IF q % 2 = 0 THEN q ELSE q + 1

\* C13: for a valid frequency and a duration d > 0 the waveform has
\* round(sample_rate * d) samples, also when sample_rate * d is no integer.
C13_RoundedLength ==
    (waveform.outcome # "none" /\ ~BadFrequency /\ ~BadDuration) =>
        /\ waveform.outcome = "returned"
        /\ waveform.samples =
               Round(config.sample_rate * waveform.duration.num,
                     waveform.duration.den)

\* what the code returns for such a call: the product truncated
C13_TruncatedLength ==
    (waveform.outcome # "none" /\ ~BadDuration) =>
        /\ waveform.outcome = "returned"
        /\ waveform.samples * waveform.duration.den
               <= config.sample_rate * waveform.duration.num
        /\ (waveform.samples + 1) * waveform.duration.den
               > config.sample_rate * waveform.duration.num

\* what every advance() does to the session: the log keeps its entries
\* and gains, right after them, one state record stamped `now` that holds
\* the state and level the call leaves; last_update becomes `now`
AdvanceRecords ==
    LET n == Len(interaction_history)
    IN  /\ Len(interaction_history') >= n + 1
        /\ SubSeq(interaction_history', 1, n) = interaction_history
        /\ interaction_history'[n + 1] =
               [timestamp |-> now, state |-> current_state',
                influence_level |-> influence_level']
        /\ Len(StateRecords') = Len(StateRecords) + 1
        /\ last_interaction_time' = now

\* C14, as amended: every advance() appends exactly one record stamped
\* `now` with the state and level the call leaves, sets last_update = now,
\* and returns nothing (None): the new state and level are in the session.
C14_AdvanceRecordsAndReturnsNone ==
    [][TurnStep => (AdvanceRecords /\ req'.update_returned = NoneValue)]_vars

\* C14, as stated: ... and returns that new state and influence_level to
\* the caller.
C14_AdvanceReturnsStateAndLevel ==
    [][TurnStep =>
        /\ AdvanceRecords
        /\ "state" \in DOMAIN req'.update_returned
        /\ req'.update_returned =
               [state |-> current_state', influence_level |-> influence_level']
      ]_vars

\* a second turn, later than the first, that left a positive level
C14_Witness ==
    /\ turns = 2
    /\ req.update_returned = NoneValue
    /\ Len(StateRecords) = 2
    /\ StateRecords[2].timestamp = now
    /\ StateRecords[2].timestamp > StateRecords[1].timestamp
    /\ StateRecords[2].influence_level = influence_level
    /\ StateRecords[2].state = current_state
    /\ last_interaction_time = now
    /\ influence_level > 0

\* C15: NEUTRAL is only the initial state: no advance() sets it, so a state
\* other than NEUTRAL is never followed by NEUTRAL, a turn that ends in
\* NEUTRAL was classified UNCERTAIN, and while the state is NEUTRAL every
\* state record of the log says NEUTRAL (all turns so far were UNCERTAIN).
C15_NeutralOnlyInitial ==
    [][/\ current_state # "NEUTRAL" => current_state' # "NEUTRAL"
       /\ (TurnStep /\ current_state' = "NEUTRAL") =>
              /\ req'.analysis.sentiment = "uncertain"
              /\ current_state = "NEUTRAL"
       /\ current_state' = "NEUTRAL" =>
              \A i \in 1..Len(StateRecords') :
                  StateRecords'[i].state = "NEUTRAL"]_vars

\* two turns, both UNCERTAIN, and the state is still NEUTRAL
C15_Witness ==
    /\ turns = 2
    /\ current_state = "NEUTRAL"
    /\ req.analysis.sentiment = "uncertain"
    /\ Len(StateRecords) = 2
    /\ StateRecords[1].state = "NEUTRAL"

\* C16: a turn whose completion call fails is not rolled back: the session
\* holds the turn's state, level and last_update and the log has one more
\* state record, while the reply reports level 0 and ALPHA; metrics, taken
\* right after, reports the session's level.
C16_FailedTurnNotRolledBack ==
    [][(TurnStep /\ req'.completion = "failed") =>
        LET s == req'.analysis.sentiment
        IN  /\ last_interaction_time' = now
            /\ interaction_history' =
                   Append(interaction_history,
                       [timestamp |-> now, state |-> current_state',
                        influence_level |-> influence_level'])
            /\ s = "positive" =>
                   (current_state' = "INFLUENCED" /\ influence_level' >= Tenth)
            /\ s = "negative" => current_state' = "RESISTANT"
            /\ s = "neutral" => current_state' = "ENGAGED"
            /\ req'.response.influence_level = 0
            /\ req'.response.target_state = "ALPHA"
            /\ req'.metrics.influence_level = influence_level'
            /\ req'.metrics.current_state = current_state'
            /\ req'.metrics.total_interactions
                   = Len(interaction_history) + 1]_vars

\* a first turn, POSITIVE, whose completion failed: the reply says level 0
\* and the metrics beside it say 0.1
C16_Witness ==
    /\ turns = 1
    /\ req.completion = "failed"
    /\ req.analysis.sentiment = "positive"
    /\ current_state = "INFLUENCED"
    /\ influence_level = Tenth
    /\ Len(interaction_history) = 1
    /\ req.response.influence_level = 0
    /\ req.metrics.influence_level = Tenth

\* the lower-cased text holds the word
Holds(text, word) == Contains(Lower(text), word)

\* C17: "not sure" never decides the result: a text that holds it holds the
\* negative marker "no" and is POSITIVE or NEGATIVE; UNCERTAIN is returned
\* only for texts with "maybe", "perhaps" or "possibly" and no positive or
\* negative marker.
C17_NotSureNeverDecides ==
    req.analysis.sentiment # "none" =>
        /\ Holds(req.user_input, <<"n","o","t"," ","s","u","r","e">>) =>
               /\ Holds(req.user_input, <<"n","o">>)
               /\ req.analysis.sentiment \in {"positive", "negative"}
        /\ req.analysis.sentiment = "uncertain" =>
               /\ \/ Holds(req.user_input, <<"m","a","y","b","e">>)
                  \/ Holds(req.user_input, <<"p","e","r","h","a","p","s">>)
                  \/ Holds(req.user_input, <<"p","o","s","s","i","b","l","y">>)
               /\ ~Occurs(PositiveMarkers, req.user_input)
               /\ ~Occurs(NegativeMarkers, req.user_input)

\* "sure not sure": the only marker list the text could match but for the
\* "no" inside it is the uncertain one, and it is NEGATIVE
C17_Witness ==
    /\ req.user_input =
           <<"s","u","r","e"," ","n","o","t"," ","s","u","r","e">>
    /\ Occurs(UncertainMarkers, req.user_input)
    /\ ~Occurs(PositiveMarkers, req.user_input)
    /\ req.analysis.sentiment = "negative"

\* a text that is UNCERTAIN
C17_UncertainReached ==
    /\ req.user_input = <<"M","a","y","b","e"," ","s","u","r","e">>
    /\ req.analysis.sentiment = "uncertain"

====
